---- MODULE Spec2Model ----
(***************************************************************************)
(* Model of the ML inference benchmark: the naive and the optimized        *)
(* execution engines (src/engines), the weights provider (src/models.py),  *)
(* the profiler (src/profiler.py), input preparation (src/utils.py) and    *)
(* the analysis entry point (src/analyze.py).                              *)
(*                                                                         *)
(* Tensors are sequences of rows, a row is a sequence of integers.  All    *)
(* arithmetic of the engines is done on integers, on which float32         *)
(* arithmetic is exact within the magnitudes the bounds allow.             *)
(***************************************************************************)
EXTENDS Integers, Sequences, FiniteSets, TLC

(***************************************************************************)
(* Bounds of the model.                                                    *)
(***************************************************************************)
\* network dimensions (INPUT_DIM, HIDDEN_DIM, OUTPUT_DIM scaled down)
InputDim == 2
HiddenDim == 2
OutputDim == 2
\* largest max_batch_size an engine is configured with
MaxBatch == 2
\* number of different weight sets and of different input rows
MaxSeeds == 2
MaxRowKinds == 2
\* longest user vector and widest feature vector given to tile_input_data
MaxVecLen == 3
MaxTileDim == 3
\* longest input string given to run_analysis
MaxStrLen == 3
\* largest latency and largest peak memory a profile run measures, in clock
\* ticks and in kilobytes
MaxTicks == 2
\* largest dimension given to MLPModel
MaxModelDim == 2
\* largest warmups and iterations a profiler is constructed with
MaxWarmups == 2
MaxIterations == 2

Min(a, b) == IF a < b THEN a ELSE b
Max(a, b) == IF a < b THEN b ELSE a
Abs(a) == IF a < 0 THEN 0 - a ELSE a

(***************************************************************************)
(* Input data of the model: weight sets and input batches.  Entries range  *)
(* over -2..2 so that the ReLU has both signs to work on.                  *)
(***************************************************************************)
Scramble(s, k) == ((s * 3 + k * k + 2 * k + s * k) % 5) - 2

WeightSet(s) ==
  [W1 |-> [i \in 1..InputDim |-> [j \in 1..HiddenDim |-> Scramble(s, 3 * i + j)]],
   b1 |-> [j \in 1..HiddenDim |-> Scramble(s + 1, j)],
   W2 |-> [i \in 1..HiddenDim |-> [j \in 1..OutputDim |-> Scramble(s + 2, 2 * i + j)]],
   b2 |-> [j \in 1..OutputDim |-> Scramble(s + 3, j + 1)]]

WeightSets == {WeightSet(s) : s \in 1..MaxSeeds}

InputRow(m) == [i \in 1..InputDim |-> ((m * (i + 1) + i) % 5) - 2]

\* a batch of b rows whose rows differ from each other
Batch(b, k) == [r \in 1..b |-> InputRow(k + r)]

Batches(maxb) == {Batch(b, k) : b \in 0..maxb, k \in 1..MaxRowKinds}

(***************************************************************************)
(* NumPy primitives.                                                       *)
(***************************************************************************)
RECURSIVE DotSum(_, _, _, _)
\* sum over k = 1..n of u[k] * W[k][j]
DotSum(u, W, j, n) == IF n = 0 THEN 0 ELSE DotSum(u, W, j, n - 1) + u[n] * W[n][j]

\* a @ W, a of shape (rows, n), W of shape (n, cols): a new array
MatMul(a, W, cols) ==
  [r \in 1..Len(a) |-> [j \in 1..cols |-> DotSum(a[r], W, j, Len(W))]]

\* a + bias, bias broadcast over the rows: a new array
AddBias(a, bias) == [r \in 1..Len(a) |-> [j \in 1..Len(bias) |-> a[r][j] + bias[j]]]

\* np.maximum(a, 0): a new array
Relu(a) == [r \in 1..Len(a) |-> [j \in 1..Len(a[r]) |-> Max(a[r][j], 0)]]

\* np.zeros((rows, cols))
Zeros(rows, cols) == [r \in 1..rows |-> [j \in 1..cols |-> 0]]

\* buf[:b], read: the first b rows of buf (a slice never exceeds the array)
View(buf, b) == SubSeq(buf, 1, Min(b, Len(buf)))

\* mutant of WriteView: the write clears the rows the view does not cover
WriteViewClearRest(buf, b, rows) ==
  [r \in 1..Len(buf) |-> IF r <= b THEN rows[r] ELSE [j \in 1..Len(buf[r]) |-> 0]]

\* a write of `rows` through the view buf[:b]: the rows of buf the view does not
\* cover keep their contents
WriteView(buf, b, rows) ==
  [r \in 1..Len(buf) |-> IF r <= b THEN rows[r] ELSE buf[r]]

(***************************************************************************)
(* NaiveExecutionEngine.forward: every step allocates its result.          *)
(***************************************************************************)
NaiveForward(w, x) ==
  LET hidden_pre == AddBias(MatMul(x, w.W1, Len(w.b1)), w.b1)
      hidden == Relu(hidden_pre)
      output == AddBias(MatMul(hidden, w.W2, Len(w.b2)), w.b2)
  IN output

(***************************************************************************)
(* OptimizedExecutionEngine: the five in-place steps of forward, each on   *)
(* the views current_hidden = hidden_buf[:b], current_output =             *)
(* output_buf[:b].  An engine is the record [w, hidden_buf, output_buf].   *)
(***************************************************************************)
NewOptimizedEngine(w, maxb) ==
  [w |-> w,
   hidden_buf |-> Zeros(maxb, Len(w.b1)),
   output_buf |-> Zeros(maxb, Len(w.b2))]

\* mutant of DotOut: the product is added to what the buffer holds
DotOutAccumulate(a, W, cols, buf, b) ==
  WriteView(buf, b, [r \in 1..Len(a) |->
                      [j \in 1..cols |-> buf[r][j] + MatMul(a, W, cols)[r][j]]])

\* np.dot(a, W, out=buf[:b])
DotOut(a, W, cols, buf, b) == WriteView(buf, b, MatMul(a, W, cols))

\* np.add(buf[:b], bias, out=buf[:b])
AddOut(buf, bias, b) == WriteView(buf, b, AddBias(View(buf, b), bias))

\* mutant of MaximumOut: nothing is clamped
MaximumOutNoClamp(buf, b) == buf

\* np.maximum(buf[:b], 0, out=buf[:b])
MaximumOut(buf, b) == WriteView(buf, b, Relu(View(buf, b)))

\* step n (1..5) of forward on engine e for the input x
ForwardStep(e, x, n) ==
  LET b == Len(x) IN
  CASE n = 1 -> [e EXCEPT !.hidden_buf = DotOut(x, e.w.W1, Len(e.w.b1), e.hidden_buf, b)]
    [] n = 2 -> [e EXCEPT !.hidden_buf = AddOut(e.hidden_buf, e.w.b1, b)]
    [] n = 3 -> [e EXCEPT !.hidden_buf = MaximumOut(e.hidden_buf, b)]
    [] n = 4 -> [e EXCEPT !.output_buf =
                   DotOut(View(e.hidden_buf, b), e.w.W2, Len(e.w.b2), e.output_buf, b)]
    [] n = 5 -> [e EXCEPT !.output_buf = AddOut(e.output_buf, e.w.b2, b)]

NumSteps == 5

RECURSIVE RunSteps(_, _, _)
\* steps 1..n of forward, in order
RunSteps(e, x, n) == IF n = 0 THEN e ELSE ForwardStep(RunSteps(e, x, n - 1), x, n)

\* the capacity check of forward
ExceedsCapacity(e, x) == Len(x) > Len(e.hidden_buf)

CapacityError(e, x) ==
  [kind |-> "ValueError", requested |-> Len(x), allocated |-> Len(e.hidden_buf)]

\* mutant of ForwardReturn: forward returns a copy of current_output
ForwardReturnCopy(e, x) == [kind |-> "array", data |-> View(e.output_buf, Len(x))]

\* what forward returns on engine e (all steps done): current_output, a view of
\* output_buf; no copy is made
ForwardReturn(e, x) == [kind |-> "view", rows |-> Len(x)]

\* mutant of OptForward: the capacity check comes after the arithmetic, which has
\* run on the rows that fit
OptForwardLateCheck(e, x) ==
  LET fit == View(x, Len(e.hidden_buf))
      done == RunSteps(e, fit, NumSteps)
  IN IF ExceedsCapacity(e, x)
     THEN [engine |-> done, ret |-> CapacityError(e, x), steps |-> NumSteps]
     ELSE [engine |-> done, ret |-> ForwardReturn(done, x), steps |-> NumSteps]

\* one whole call of forward: the engine after it, what it returned or raised,
\* and the number of arithmetic steps it ran
OptForward(e, x) ==
  IF ExceedsCapacity(e, x)
  THEN [engine |-> e, ret |-> CapacityError(e, x), steps |-> 0]
  ELSE LET done == RunSteps(e, x, NumSteps)
       IN [engine |-> done, ret |-> ForwardReturn(done, x), steps |-> NumSteps]

\* the contents a caller reads through what forward returned: a view reads the
\* engine's output buffer as it is now, an array owns its data
ReadResult(e, r) == IF r.kind = "view" THEN View(e.output_buf, r.rows) ELSE r.data

NoResult == [kind |-> "none"]
IsResult(r) == r.kind \in {"view", "array"}

(***************************************************************************)
(* src/utils.py: input preparation.                                        *)
(***************************************************************************)
RECURSIVE Pow2(_)
Pow2(n) == IF n = 0 THEN 1 ELSE 2 * Pow2(n - 1)

RECURSIVE Log2Floor(_)
\* the largest p with 2^p <= a, for a >= 1
Log2Floor(a) == IF a < 2 THEN 0 ELSE 1 + Log2Floor(a \div 2)

\* bits of a float32 significand
Float32Precision == 24

\* the float32 nearest to the integer v (ties to even): what
\* np.array(..., dtype=np.float32) stores for v
ToFloat32(v) ==
  LET a == Abs(v)
      p == Log2Floor(a)
      ulp == IF p < Float32Precision THEN 1 ELSE Pow2(p - Float32Precision + 1)
      q == a \div ulp
      rest == a - q * ulp
      up == \/ 2 * rest > ulp
            \/ (2 * rest = ulp /\ q % 2 = 1)
      m == (IF up THEN q + 1 ELSE q) * ulp
  IN IF v < 0 THEN 0 - m ELSE m

RECURSIVE NpTile(_, _)
\* np.tile(v, reps) of a vector: reps copies of v, one after the other
NpTile(v, reps) == IF reps <= 0 THEN <<>> ELSE v \o NpTile(v, reps - 1)

\* v[:n] for n >= 0
Slice(v, n) == SubSeq(v, 1, Min(n, Len(v)))

\* mutant of TileRepeats: one repeat too few
TileRepeatsNoExtra(n, input_dim) == input_dim \div n

\* the number of copies tile_input_data makes of a vector of length n
TileRepeats(n, input_dim) == (input_dim \div n) + 1

\* np.tile(feature_vector, (batch_size, 1)); a negative repeat count raises
TileRows(feature_vector, batch_size) ==
  IF batch_size < 0
  THEN [kind |-> "ValueError", msg |-> "repeats may not contain negative values."]
  ELSE [kind |-> "array",
        shape |-> <<batch_size, Len(feature_vector)>>,
        data |-> [r \in 1..batch_size |-> feature_vector]]

\* tile_input_data(user_input, batch_size, input_dim), for input_dim >= 0
TileInputData(user_input, batch_size, input_dim) ==
  IF Len(user_input) = 0
  THEN [kind |-> "ValueError", msg |-> "Input data cannot be empty."]
  ELSE LET as_array == [i \in 1..Len(user_input) |-> ToFloat32(user_input[i])]
           feature_vector ==
             IF Len(as_array) < input_dim
             THEN Slice(NpTile(as_array, TileRepeats(Len(as_array), input_dim)), input_dim)
             ELSE Slice(as_array, input_dim)
       IN TileRows(feature_vector, batch_size)

\* numbers a user vector is made of; the last one is no float32
UserValues == {-1, 1, 2, 16777217}

RECURSIVE SeqsUpTo(_, _)
\* the sequences over S of length at most n
SeqsUpTo(S, n) ==
  IF n = 0 THEN {<<>>}
  ELSE LET shorter == SeqsUpTo(S, n - 1)
       IN shorter \cup {Append(q, e) : q \in shorter, e \in S}

\* characters an input string is made of ("x" stands for any character that
\* is no part of a number)
Chars == {"1", "-", ",", " ", "x"}
Digits == <<"0", "1", "2", "3", "4", "5", "6", "7", "8", "9">>
IsDigit(c) == \E d \in 1..Len(Digits) : Digits[d] = c
DigitValue(c) == (CHOOSE d \in 1..Len(Digits) : Digits[d] = c) - 1

RECURSIVE SplitComma(_)
\* s.split(','): the fields between the commas, at least one
SplitComma(s) ==
  IF \A i \in 1..Len(s) : s[i] # ","
  THEN <<s>>
  ELSE LET i == CHOOSE k \in 1..Len(s) : s[k] = "," /\ \A m \in 1..(k - 1) : s[m] # ","
       IN <<SubSeq(s, 1, i - 1)>> \o SplitComma(SubSeq(s, i + 1, Len(s)))

RECURSIVE Strip(_)
\* f.strip(): f without the blanks at its ends
Strip(f) ==
  IF f = <<>> THEN f
  ELSE IF f[1] = " " THEN Strip(Tail(f))
  ELSE IF f[Len(f)] = " " THEN Strip(SubSeq(f, 1, Len(f) - 1))
  ELSE f

\* whether float(f) accepts f: an optional sign and digits (of the literals of
\* Python's float, those the characters of the model can spell)
Unsigned(f) == IF f # <<>> /\ f[1] \in {"-", "+"} THEN Tail(f) ELSE f
IsFloatLiteral(f) ==
  /\ Unsigned(f) # <<>>
  /\ \A i \in 1..Len(Unsigned(f)) : IsDigit(Unsigned(f)[i])

RECURSIVE DecimalValue(_)
DecimalValue(ds) ==
  IF ds = <<>> THEN 0
  ELSE 10 * DecimalValue(SubSeq(ds, 1, Len(ds) - 1)) + DigitValue(ds[Len(ds)])

\* float(f) of an accepted f
FloatValue(f) ==
  IF f[1] = "-" THEN 0 - DecimalValue(Unsigned(f)) ELSE DecimalValue(Unsigned(f))

\* mutant of ParseInputString: a field that is no number is skipped
ParseInputStringSkipBad(input_str) ==
  LET fields == SplitComma(input_str)
      good == SelectSeq(fields, LAMBDA f : IsFloatLiteral(Strip(f)))
  IN [kind |-> "list", data |-> [i \in 1..Len(good) |-> FloatValue(Strip(good[i]))]]

\* parse_input_string(input_str)
ParseInputString(input_str) ==
  LET fields == SplitComma(input_str) IN
  IF \A i \in 1..Len(fields) : IsFloatLiteral(Strip(fields[i]))
  THEN [kind |-> "list", data |-> [i \in 1..Len(fields) |-> FloatValue(Strip(fields[i]))]]
  ELSE [kind |-> "ValueError",
        msg |-> "Invalid input format. Expected comma-separated floats"]

(***************************************************************************)
(* src/models.py: the weights.  The entries drawn from the seeded          *)
(* generator are the model's Scramble of the seed; the biases are zero.    *)
(***************************************************************************)
Seed == 42

MLPModel(input_dim, hidden_dim, output_dim) ==
  IF input_dim < 0 \/ hidden_dim < 0 \/ output_dim < 0
  THEN [kind |-> "ValueError", msg |-> "negative dimensions are not allowed"]
  ELSE [kind |-> "model",
        W1 |-> [i \in 1..input_dim |-> [j \in 1..hidden_dim |-> Scramble(Seed, 3 * i + j)]],
        b1 |-> [j \in 1..hidden_dim |-> 0],
        W2 |-> [i \in 1..hidden_dim |-> [j \in 1..output_dim |-> Scramble(Seed + 1, 2 * i + j)]],
        b2 |-> [j \in 1..output_dim |-> 0]]

\* model.get_weights()
GetWeights(model) == [W1 |-> model.W1, b1 |-> model.b1, W2 |-> model.W2, b2 |-> model.b2]

(***************************************************************************)
(* src/profiler.py: one profile run of an engine's forward on x.           *)
(***************************************************************************)
\* ExecutionProfiler(warmups=5, iterations=20)
Warmups == 5
Iterations == 20

\* engine.forward(x) of the engine called `name`
Forward(name, e, x) ==
  IF name = "optimized"
  THEN OptForward(e, x)
  ELSE [engine |-> e, ret |-> [kind |-> "array", data |-> NaiveForward(e.w, x)]]

RECURSIVE CallTimes(_, _, _, _)
\* the engine after n calls of forward(x); once a call leaves the engine as it
\* was, so does every later call on the same x
CallTimes(name, e, x, n) ==
  IF n = 0 THEN e
  ELSE LET next == Forward(name, e, x).engine
       IN IF next = e THEN e ELSE CallTimes(name, next, x, n - 1)

RECURSIVE SumSeq(_)
SumSeq(q) == IF q = <<>> THEN 0 ELSE q[1] + SumSeq(Tail(q))

RECURSIVE Flatten(_)
Flatten(rows) == IF rows = <<>> THEN <<>> ELSE rows[1] \o Flatten(Tail(rows))

RECURSIVE Gcd(_, _)
Gcd(a, b) == IF b = 0 THEN a ELSE Gcd(b, a % b)

\* the number n / d, d # 0, as a fraction in lowest terms with a positive
\* denominator: two quotients are equal iff their fractions are
Rat(n, d) ==
  LET g == Gcd(Abs(n), Abs(d))
      sign == IF d < 0 THEN -1 ELSE 1
  IN <<sign * (n \div g), sign * (d \div g)>>

\* what a division by zero raises, in place of a quotient
ZeroDivisionError == <<"ZeroDivisionError">>

\* a / b of Python floats
Divide(a, b) == IF b = 0 THEN ZeroDivisionError ELSE Rat(a, b)

\* min, max and mean of an output; min of an empty array raises
Summarize(values) ==
  LET flat == Flatten(values) IN
  IF flat = <<>>
  THEN [kind |-> "ValueError",
        msg |-> "zero-size array to reduction operation minimum which has no identity"]
  ELSE [kind |-> "summary",
        min |-> CHOOSE v \in {flat[i] : i \in 1..Len(flat)} :
                  \A i \in 1..Len(flat) : v <= flat[i],
        max |-> CHOOSE v \in {flat[i] : i \in 1..Len(flat)} :
                  \A i \in 1..Len(flat) : v >= flat[i],
        mean |-> Rat(SumSeq(flat), Len(flat))]

\* profile(engine.forward, x): warmups, then the timed calls, whose last
\* output is kept, then the traced calls; then the summary of the kept output
\* as it reads at that point.  latency and peak are what the clock and the
\* allocation trace measured.
Profile(name, e, x, latency, peak) ==
  LET warm == CallTimes(name, e, x, Warmups)
      timed == CallTimes(name, warm, x, Iterations)
      last_output == Forward(name, CallTimes(name, warm, x, Iterations - 1), x).ret
      traced == CallTimes(name, timed, x, Iterations)
      output_stats == Summarize(ReadResult(traced, last_output))
  IN [engine |-> traced,
      calls |-> Warmups + 2 * Iterations,
      result |-> IF output_stats.kind = "ValueError"
                 THEN output_stats
                 ELSE [kind |-> "ProfileResult",
                       latency_sec |-> latency,
                       peak_memory_kb |-> peak,
                       output_summary |-> output_stats]]

(***************************************************************************)
(* src/analyze.py: the pure parts of run_analysis.                         *)
(***************************************************************************)
\* lines 26-30: parse and tile; every exception becomes a ValueError
PrepareInput(input_str, batch_size, input_dim) ==
  LET raw_input == ParseInputString(input_str) IN
  IF raw_input.kind = "ValueError"
  THEN [kind |-> "ValueError", msg |-> "Error preparing input", cause |-> raw_input.msg]
  ELSE LET input_data == TileInputData(raw_input.data, batch_size, input_dim) IN
       IF input_data.kind = "ValueError"
       THEN [kind |-> "ValueError", msg |-> "Error preparing input", cause |-> input_data.msg]
       ELSE input_data

EngineOrder == <<"baseline", "optimized">>

\* mutant of EngineNames: baseline is built in every mode
EngineNamesAlwaysBaseline(mode) ==
  {"baseline"} \cup (IF mode \in {"optimized", "both"} THEN {"optimized"} ELSE {})

\* lines 45-48: the engines a mode asks for
EngineNames(mode) ==
  (IF mode \in {"baseline", "both"} THEN {"baseline"} ELSE {})
    \cup (IF mode \in {"optimized", "both"} THEN {"optimized"} ELSE {})

\* mutant of SpeedupOf: the guard lets a zero latency through
SpeedupOfNoGuard(base_latency, opt_latency) ==
  IF opt_latency >= 0 THEN Divide(base_latency, opt_latency) ELSE Rat(0, 1)

\* line 75
SpeedupOf(base_latency, opt_latency) ==
  IF opt_latency > 0 THEN Divide(base_latency, opt_latency) ELSE Rat(0, 1)

\* lines 76-77
MemSavedPct(base_peak, opt_peak) ==
  LET mem_saved == base_peak - opt_peak IN
  IF base_peak > 0 THEN Divide(mem_saved * 100, base_peak) ELSE Rat(0, 1)

\* np.abs(out_base - out_opt).max() of two non-empty outputs of one shape
MaxAbsDiff(a, b) ==
  LET diffs == {Abs(a[r][j] - b[r][j]) : r \in 1..Len(a), j \in 1..OutputDim}
  IN CHOOSE v \in diffs : \A u \in diffs : u <= v

\* the tolerance is 1e-4 = 1 / ToleranceInverse
ToleranceInverse == 10000

\* line 83: max_diff < 1e-4
WithinTolerance(max_diff) == max_diff * ToleranceInverse < 1

\* input_str[:50] + "..."
PreviewLen == 50
InputPreview(input_str) == Slice(input_str, PreviewLen) \o <<".", ".", ".">>

(***************************************************************************)
(* State.                                                                  *)
(***************************************************************************)
VARIABLES
  \* the engines under sequential use
  max_batch_size, \* config['max_batch_size']
  opt,            \* the OptimizedExecutionEngine: [w, hidden_buf, output_buf]
  naive,          \* the NaiveExecutionEngine: [w]
  call_x,         \* input of the latest optimized forward
  call_ret,       \* what it returned (a view) or raised
  call_steps,     \* arithmetic steps it ran
  prev_x,         \* input of the optimized forward before that
  prev_ret,       \* its returned value, kept by the caller without copying
  prev_copy,      \* the caller's copy of it, taken before the latest call
  naive_x,        \* input of the latest naive forward
  naive_ret,      \* the array it returned
  \* tile_input_data
  tile_in,        \* its arguments: [user_input, batch_size, input_dim]
  tile_out,       \* what it returned or raised
  \* run_analysis
  a_args,         \* its arguments: [input_str, batch_size, mode]
  a_pc,           \* where it is: prepare, model, engines, profile, report; done, failed
  a_input,        \* input_data
  a_model,        \* the MLPModel, once constructed
  a_engines,      \* engines: name -> engine
  a_results,      \* results: name -> ProfileResult
  a_calls,        \* name -> number of forward calls made on that engine
  a_profiled,     \* name -> the input its profile run called forward with
  a_oneshot,      \* name -> the input of its one-shot forward of the comparison
  a_error,        \* the exception run_analysis ended with
  a_report,       \* report_data, once returned
  \* two callers of forward on one optimized engine
  c_opt,          \* the shared OptimizedExecutionEngine
  c_pc,           \* caller -> 0 (no call yet), 1..5 (its next step of forward),
                  \*   6 (forward has returned), 7 (the caller has read the result)
  c_x,            \* caller -> its input
  c_out,          \* caller -> the output it read through the returned view
  c_overlap,      \* caller -> whether the other call took a step during its call
  \* two callers of forward on one naive engine
  n_engine,       \* the shared NaiveExecutionEngine (its weights)
  n_pc,           \* caller -> 0 (no call yet), 1..3 (its next statement of forward),
                  \*   4 (at the return statement), 5 (forward has returned)
  n_x,            \* caller -> its input
  n_frame,        \* caller -> the locals hidden_pre, hidden, output of its call
  n_ret,          \* caller -> the array its call returned
  n_overlap,      \* caller -> whether the other call took a step during its call
  \* construction of the weights provider
  m_args,         \* the dimensions given to MLPModel
  m_model,        \* the MLPModel constructed, or the exception raised
  m_weights,      \* the weight set get_weights returned
  \* one run of ExecutionProfiler.profile(func, x), statement by statement
  p_profiler,     \* the profiler: its warmups and iterations
  p_func,         \* the callable profiled
  p_args,         \* the argument x every call gets
  p_state,        \* the state the callable keeps between calls (its engine)
  p_pc,           \* the statement profile is at
  p_i,            \* the calls the running loop has made
  p_tracing,      \* whether tracemalloc is tracing
  p_timing,       \* whether start_time has been read and end_time not yet
  p_last_output,  \* the local last_output
  p_latency,      \* the local avg_latency
  p_peak,         \* the local peak, in kilobytes
  p_error,        \* the exception on its way out of profile
  p_result,       \* the ProfileResult returned
  p_log           \* the calls made so far: the loop of each, whether it ran
                  \*   traced and timed, and what it returned at that time

engineVars ==
  <<max_batch_size, opt, naive, call_x, call_ret, call_steps,
    prev_x, prev_ret, prev_copy, naive_x, naive_ret>>

tileVars == <<tile_in, tile_out>>

analysisVars ==
  <<a_args, a_pc, a_input, a_model, a_engines, a_results, a_calls,
    a_profiled, a_oneshot, a_error, a_report>>

concVars == <<c_opt, c_pc, c_x, c_out, c_overlap>>

naiveConcVars == <<n_engine, n_pc, n_x, n_frame, n_ret, n_overlap>>

modelVars == <<m_args, m_model, m_weights>>

profVars ==
  <<p_profiler, p_func, p_args, p_state, p_pc, p_i, p_tracing, p_timing,
    p_last_output, p_latency, p_peak, p_error, p_result, p_log>>

vars == <<engineVars, tileVars, analysisVars, concVars, naiveConcVars, modelVars, profVars>>

Callers == {1, 2}

\* the parts of the state a specification does not use stay as they are here
EngineIdle ==
  /\ max_batch_size = 0
  /\ opt = NoResult
  /\ naive = NoResult
  /\ call_x = <<>>
  /\ call_ret = NoResult
  /\ call_steps = 0
  /\ prev_x = <<>>
  /\ prev_ret = NoResult
  /\ prev_copy = <<>>
  /\ naive_x = <<>>
  /\ naive_ret = NoResult

TileIdle ==
  /\ tile_in = NoResult
  /\ tile_out = NoResult

NoCalls == [n \in {"baseline", "optimized"} |-> 0]

AnalysisIdle ==
  /\ a_args = NoResult
  /\ a_pc = "idle"
  /\ a_input = NoResult
  /\ a_model = NoResult
  /\ a_engines = <<>>
  /\ a_results = <<>>
  /\ a_calls = NoCalls
  /\ a_profiled = <<>>
  /\ a_oneshot = <<>>
  /\ a_error = NoResult
  /\ a_report = NoResult

ConcIdle ==
  /\ c_opt = NoResult
  /\ c_pc = [t \in Callers |-> 0]
  /\ c_x = [t \in Callers |-> <<>>]
  /\ c_out = [t \in Callers |-> NoResult]
  /\ c_overlap = [t \in Callers |-> FALSE]

\* the locals of a call of the naive forward before its first statement
NoFrame == [hidden_pre |-> <<>>, hidden |-> <<>>, output |-> <<>>]

NaiveConcIdle ==
  /\ n_engine = NoResult
  /\ n_pc = [t \in Callers |-> 0]
  /\ n_x = [t \in Callers |-> <<>>]
  /\ n_frame = [t \in Callers |-> NoFrame]
  /\ n_ret = [t \in Callers |-> NoResult]
  /\ n_overlap = [t \in Callers |-> FALSE]

ModelIdle ==
  /\ m_args = NoResult
  /\ m_model = NoResult
  /\ m_weights = NoResult

ProfIdle ==
  /\ p_profiler = NoResult
  /\ p_func = NoResult
  /\ p_args = <<>>
  /\ p_state = NoResult
  /\ p_pc = "idle"
  /\ p_i = 0
  /\ p_tracing = FALSE
  /\ p_timing = FALSE
  /\ p_last_output = NoResult
  /\ p_latency = NoResult
  /\ p_peak = 0
  /\ p_error = NoResult
  /\ p_result = NoResult
  /\ p_log = <<>>

(***************************************************************************)
(* Sequential use of the two engines built on one weight set.              *)
(***************************************************************************)
EngineInit ==
  /\ max_batch_size \in 1..MaxBatch
  /\ \E w \in WeightSets :
       /\ opt = NewOptimizedEngine(w, max_batch_size)
       /\ naive = [w |-> w]
  /\ call_x = <<>>
  /\ call_ret = NoResult
  /\ call_steps = 0
  /\ prev_x = <<>>
  /\ prev_ret = NoResult
  /\ prev_copy = <<>>
  /\ naive_x = <<>>
  /\ naive_ret = NoResult
  /\ TileIdle
  /\ AnalysisIdle
  /\ ConcIdle
  /\ NaiveConcIdle
  /\ ModelIdle
  /\ ProfIdle

\* a caller calls opt.forward(x), keeping the value of its previous call and a
\* copy of that value made before this call; it holds no naive output for the
\* new input yet
OptCall(x) ==
  LET out == OptForward(opt, x) IN
  /\ opt' = out.engine
  /\ call_x' = x
  /\ call_ret' = out.ret
  /\ call_steps' = out.steps
  /\ prev_x' = call_x
  /\ prev_ret' = call_ret
  /\ prev_copy' = IF IsResult(call_ret) THEN ReadResult(opt, call_ret) ELSE <<>>
  /\ naive_x' = <<>>
  /\ naive_ret' = NoResult
  /\ UNCHANGED <<max_batch_size, naive, tileVars, analysisVars, concVars,
                 naiveConcVars, modelVars, profVars>>

\* the caller calls naive.forward on the input it last gave the optimized engine
NaiveCall(x) ==
  /\ call_ret # NoResult
  /\ x = call_x
  /\ naive_x' = x
  /\ naive_ret' = [kind |-> "array", data |-> NaiveForward(naive.w, x)]
  /\ UNCHANGED <<max_batch_size, opt, naive, call_x, call_ret, call_steps,
                 prev_x, prev_ret, prev_copy, tileVars, analysisVars, concVars,
                 naiveConcVars, modelVars, profVars>>

OptCalls == \E x \in Batches(max_batch_size + 1) : OptCall(x)
NaiveCalls == \E x \in Batches(max_batch_size + 1) : NaiveCall(x)

EngineNext == OptCalls \/ NaiveCalls

SpecEngine == EngineInit /\ [][EngineNext]_vars

\* what a freshly constructed optimized engine returns for x
FreshOutput(x) ==
  LET out == OptForward(NewOptimizedEngine(opt.w, max_batch_size), x)
  IN ReadResult(out.engine, out.ret)

\* C1: a forward whose input has more rows than max_batch_size raises the capacity
\* error, which names the requested and the configured size, before any
\* arithmetic step has run, and leaves hidden_buf and output_buf as they were.
C1_CapacityErrorNoMutation ==
  /\ [](Len(call_x) > max_batch_size =>
          /\ call_ret.kind = "ValueError"
          /\ call_ret.requested = Len(call_x)
          /\ call_ret.allocated = max_batch_size
          /\ call_steps = 0)
  /\ [][call_ret'.kind = "ValueError" =>
          /\ opt'.hidden_buf = opt.hidden_buf
          /\ opt'.output_buf = opt.output_buf]_vars

\* an over-capacity call has failed on an engine whose buffers hold the results of
\* an earlier call
C1_Witness ==
  /\ call_ret.kind = "ValueError"
  /\ Len(call_x) > max_batch_size
  /\ prev_ret.kind = "view"
  /\ opt.hidden_buf # Zeros(max_batch_size, HiddenDim)
  /\ opt.output_buf # Zeros(max_batch_size, OutputDim)

\* C2: after any sequence of earlier calls, the optimized forward returns for x
\* the (batch, output_dim) result the naive forward returns for the same x on the
\* same weights.
C2_OptimizedEqualsNaive ==
  (call_ret.kind = "view" /\ naive_ret.kind = "array" /\ naive_x = call_x) =>
    /\ ReadResult(opt, call_ret) = naive_ret.data
    /\ Len(ReadResult(opt, call_ret)) = Len(call_x)
    /\ \A r \in 1..Len(call_x) : Len(ReadResult(opt, call_ret)[r]) = OutputDim

\* both engines have run on the same non-empty batch, the optimized one after an
\* earlier call on another batch, and the ReLU had a negative entry to clamp
C2_Witness ==
  /\ call_ret.kind = "view"
  /\ naive_ret.kind = "array"
  /\ naive_x = call_x
  /\ Len(call_x) >= 1
  /\ prev_ret.kind = "view"
  /\ prev_x # call_x
  /\ \E j \in 1..HiddenDim :
       AddBias(MatMul(call_x, opt.w.W1, HiddenDim), opt.w.b1)[1][j] < 0
  /\ \E j \in 1..OutputDim : naive_ret.data[1][j] # 0

\* C3: the view returned by a second forward has the second batch's row count
\* and holds what a freshly constructed engine returns for the second input.
C3_SecondCallOnly ==
  (IsResult(prev_ret) /\ call_ret.kind = "view") =>
    /\ call_ret.rows = Len(call_x)
    /\ Len(ReadResult(opt, call_ret)) = Len(call_x)
    /\ ReadResult(opt, call_ret) = FreshOutput(call_x)

\* a second call with fewer rows than the first and other contents
C3_Witness ==
  /\ prev_ret.kind = "view"
  /\ call_ret.kind = "view"
  /\ 1 <= Len(call_x)
  /\ Len(call_x) < Len(prev_x)
  /\ call_x # View(prev_x, Len(call_x))
  /\ ReadResult(opt, call_ret) # View(prev_copy, Len(call_x))

\* C4: a result kept across the next forward aliases output_buf: its rows that
\* the next call covers hold the next call's output, while the copy made before
\* that call holds the first call's output.
C4_ResultAliasesBuffer ==
  (IsResult(prev_ret) /\ IsResult(call_ret)) =>
    /\ \A r \in 1..Min(Len(prev_x), Len(call_x)) :
         ReadResult(opt, prev_ret)[r] = FreshOutput(call_x)[r]
    /\ prev_copy = FreshOutput(prev_x)

\* the kept result has changed under the caller: it differs from its copy
C4_Witness ==
  /\ prev_ret.kind = "view"
  /\ call_ret.kind = "view"
  /\ Min(Len(prev_x), Len(call_x)) >= 1
  /\ prev_x # call_x
  /\ ReadResult(opt, prev_ret)[1] # prev_copy[1]
  /\ prev_copy[1] = FreshOutput(prev_x)[1]

(***************************************************************************)
(* tile_input_data applied to every input within the bounds.               *)
(***************************************************************************)
TileInit ==
  /\ tile_in \in [user_input : SeqsUpTo(UserValues, MaxVecLen),
                   batch_size : -1..MaxBatch,
                   input_dim : 1..MaxTileDim]
  /\ tile_out = NoResult
  /\ EngineIdle
  /\ AnalysisIdle
  /\ ConcIdle
  /\ NaiveConcIdle
  /\ ModelIdle
  /\ ProfIdle

Tile ==
  /\ tile_out = NoResult
  /\ tile_out' = TileInputData(tile_in.user_input, tile_in.batch_size, tile_in.input_dim)
  /\ UNCHANGED <<tile_in, engineVars, analysisVars, concVars, naiveConcVars,
                 modelVars, profVars>>

TileNext == Tile

SpecTile == TileInit /\ [][TileNext]_vars

\* the entry of the user vector v that column i of the feature vector repeats
Cyclic(v, i) == v[((i - 1) % Len(v)) + 1]

TileCase ==
  /\ tile_out # NoResult
  /\ Len(tile_in.user_input) >= 1
  /\ tile_in.batch_size >= 1

\* C5 as stated: the tensor has shape (batch_size, input_dim) and its entry at
\* row r, column i is v[i mod n].
C5_TileEntriesAreUserValues ==
  TileCase =>
    /\ tile_out.kind = "array"
    /\ tile_out.shape = <<tile_in.batch_size, tile_in.input_dim>>
    /\ Len(tile_out.data) = tile_in.batch_size
    /\ \A r \in 1..tile_in.batch_size :
         /\ Len(tile_out.data[r]) = tile_in.input_dim
         /\ \A i \in 1..tile_in.input_dim :
              tile_out.data[r][i] = Cyclic(tile_in.user_input, i)

\* C5, amended: the tensor has shape (batch_size, input_dim) and its entry at
\* row r, column i is v[i mod n] converted to float32.
C5_TileEntriesAreFloat32OfUserValues ==
  TileCase =>
    /\ tile_out.kind = "array"
    /\ tile_out.shape = <<tile_in.batch_size, tile_in.input_dim>>
    /\ Len(tile_out.data) = tile_in.batch_size
    /\ \A r \in 1..tile_in.batch_size :
         /\ Len(tile_out.data[r]) = tile_in.input_dim
         /\ \A i \in 1..tile_in.input_dim :
              tile_out.data[r][i] = ToFloat32(Cyclic(tile_in.user_input, i))

\* a vector of two different values tiled to three columns and two rows, one of
\* its values changed by the conversion
C5_Witness ==
  /\ TileCase
  /\ tile_out.kind = "array"
  /\ Len(tile_in.user_input) = 2
  /\ tile_in.user_input[1] # tile_in.user_input[2]
  /\ tile_in.input_dim = 3
  /\ tile_in.batch_size = 2
  /\ tile_out.data[2][3] = ToFloat32(tile_in.user_input[1])
  /\ tile_out.data[2][3] # tile_in.user_input[1]

(***************************************************************************)
(* run_analysis(input_str, batch_size, mode), step by step.                *)
(***************************************************************************)
Modes == {"baseline", "optimized", "both", "other"}

AnalysisInit ==
  /\ a_args \in [input_str : SeqsUpTo(Chars, MaxStrLen),
                  batch_size : -1..MaxBatch,
                  mode : Modes]
  /\ a_pc = "prepare"
  /\ a_input = NoResult
  /\ a_model = NoResult
  /\ a_engines = <<>>
  /\ a_results = <<>>
  /\ a_calls = NoCalls
  /\ a_profiled = <<>>
  /\ a_oneshot = <<>>
  /\ a_error = NoResult
  /\ a_report = NoResult
  /\ EngineIdle
  /\ TileIdle
  /\ ConcIdle
  /\ NaiveConcIdle
  /\ ModelIdle
  /\ ProfIdle

Raised(e, where) == [kind |-> e.kind, msg |-> e.msg, raised_by |-> where]

\* 1. Prepare Data
Prepare ==
  /\ a_pc = "prepare"
  /\ LET r == PrepareInput(a_args.input_str, a_args.batch_size, InputDim) IN
     IF r.kind = "ValueError"
     THEN /\ a_error' = Raised(r, "prepare")
          /\ a_pc' = "failed"
          /\ UNCHANGED a_input
     ELSE /\ a_input' = r
          /\ a_pc' = "model"
          /\ UNCHANGED a_error
  /\ UNCHANGED <<a_args, a_model, a_engines, a_results, a_calls, a_profiled,
                 a_oneshot, a_report, engineVars, tileVars, concVars,
                 naiveConcVars, modelVars, profVars>>

\* 2. Initialize Model
InitModel ==
  /\ a_pc = "model"
  /\ a_model' = MLPModel(InputDim, HiddenDim, OutputDim)
  /\ a_pc' = "engines"
  /\ UNCHANGED <<a_args, a_input, a_engines, a_results, a_calls, a_profiled,
                 a_oneshot, a_error, a_report, engineVars, tileVars, concVars,
                 naiveConcVars, modelVars, profVars>>

\* the engines still to profile, in the order of engines.items()
Pending(engines, results) ==
  SelectSeq(EngineOrder, LAMBDA n : n \in DOMAIN engines /\ n \notin DOMAIN results)

\* 3. Initialize Engines
InitEngines ==
  /\ a_pc = "engines"
  /\ LET weights == GetWeights(a_model)
         engines == [n \in EngineNames(a_args.mode) |->
                       IF n = "baseline"
                       THEN [w |-> weights]
                       ELSE NewOptimizedEngine(weights, a_args.batch_size)]
     IN /\ a_engines' = engines
        /\ a_pc' = IF Pending(engines, a_results) = <<>> THEN "report" ELSE "profile"
  /\ UNCHANGED <<a_args, a_input, a_model, a_results, a_calls, a_profiled,
                 a_oneshot, a_error, a_report, engineVars, tileVars, concVars,
                 naiveConcVars, modelVars, profVars>>

\* 4. Execute & Profile: one turn of the loop over the engines
ProfileEngine ==
  /\ a_pc = "profile"
  /\ \E latency \in 0..MaxTicks, peak \in 0..MaxTicks :
       LET name == Pending(a_engines, a_results)[1]
           run == Profile(name, a_engines[name], a_input.data, latency, peak)
       IN /\ a_engines' = [a_engines EXCEPT ![name] = run.engine]
          /\ a_calls' = [a_calls EXCEPT ![name] = @ + run.calls]
          /\ a_profiled' = (name :> a_input.data) @@ a_profiled
          /\ IF run.result.kind = "ValueError"
             THEN /\ a_error' = Raised(run.result, "profile")
                  /\ a_pc' = "failed"
                  /\ UNCHANGED a_results
             ELSE /\ a_results' = (name :> run.result) @@ a_results
                  /\ a_pc' = IF Len(Pending(a_engines, a_results)) = 1
                             THEN "report" ELSE "profile"
                  /\ UNCHANGED a_error
  /\ UNCHANGED <<a_args, a_input, a_model, a_oneshot, a_report, engineVars, tileVars, concVars,
                 naiveConcVars, modelVars, profVars>>

\* asdict(res)
AsDict(res) ==
  [latency_sec |-> res.latency_sec,
   peak_memory_kb |-> res.peak_memory_kb,
   output_summary |-> [min |-> res.output_summary.min,
                       max |-> res.output_summary.max,
                       mean |-> res.output_summary.mean]]

\* report_data before the comparison
ReportBase(args, results) ==
  [k \in {"timestamp", "mode", "config", "input_preview"} \cup DOMAIN results |->
     CASE k = "timestamp" -> "now"
       [] k = "mode" -> args.mode
       [] k = "config" -> [batch_size |-> args.batch_size]
       [] k = "input_preview" -> InputPreview(args.input_str)
       [] OTHER -> AsDict(results[k])]

\* 5. Comparison & Validation, and the return of report_data
Report ==
  /\ a_pc = "report"
  /\ IF a_args.mode = "both"
     THEN LET base == a_results["baseline"]
              optr == a_results["optimized"]
              speedup == SpeedupOf(base.latency_sec, optr.latency_sec)
              mem_saved_pct == MemSavedPct(base.peak_memory_kb, optr.peak_memory_kb)
              out_base == Forward("baseline", a_engines["baseline"], a_input.data)
              out_opt == Forward("optimized", a_engines["optimized"], a_input.data)
              max_diff == MaxAbsDiff(ReadResult(out_base.engine, out_base.ret),
                                     ReadResult(out_opt.engine, out_opt.ret))
              comparison == [speedup_x |-> speedup,
                             memory_savings_percent |-> mem_saved_pct,
                             correctness |-> WithinTolerance(max_diff),
                             max_diff |-> max_diff]
          IN /\ a_engines' = [a_engines EXCEPT !["baseline"] = out_base.engine,
                                               !["optimized"] = out_opt.engine]
             /\ a_calls' = [n \in DOMAIN a_calls |-> a_calls[n] + 1]
             /\ a_oneshot' = [n \in {"baseline", "optimized"} |-> a_input.data]
             /\ a_report' = ("comparison" :> comparison) @@ ReportBase(a_args, a_results)
     ELSE /\ a_report' = ReportBase(a_args, a_results)
          /\ UNCHANGED <<a_engines, a_calls, a_oneshot>>
  /\ a_pc' = "done"
  /\ UNCHANGED <<a_args, a_input, a_model, a_results, a_profiled, a_error,
                 engineVars, tileVars, concVars, naiveConcVars,
                 modelVars, profVars>>

AnalysisNext == Prepare \/ InitModel \/ InitEngines \/ ProfileEngine \/ Report

SpecAnalysis == AnalysisInit /\ [][AnalysisNext]_vars

\* nothing has been constructed and no forward call has been made
NothingBuilt ==
  /\ a_model = NoResult
  /\ a_engines = <<>>
  /\ \A n \in DOMAIN a_calls : a_calls[n] = 0

\* run_analysis has ended with an input error raised by its preparation step
RejectedAtBoundary ==
  /\ a_pc = "failed"
  /\ a_error.kind = "ValueError"
  /\ a_error.raised_by = "prepare"
  /\ a_report = NoResult

Fields == SplitComma(a_args.input_str)

\* the input string is empty, or one of its comma-separated fields is no number
BadInputString ==
  \/ a_args.input_str = <<>>
  \/ \E i \in 1..Len(Fields) : ~IsFloatLiteral(Strip(Fields[i]))

\* C6: with an empty input string, or one with a field that is no number,
\* run_analysis fails with a ValueError from the preparation step, and no
\* model, no engine and no forward call exists at that point or later.
C6_BadInputFailsBeforeConstruction ==
  BadInputString =>
    /\ NothingBuilt
    /\ a_pc \in {"prepare", "failed"}
    /\ a_pc = "failed" => RejectedAtBoundary

\* an input string with a number in one field and no number in another has
\* been rejected
C6_Witness ==
  /\ RejectedAtBoundary
  /\ Len(Fields) = 2
  /\ IsFloatLiteral(Strip(Fields[1]))
  /\ ~IsFloatLiteral(Strip(Fields[2]))
  /\ a_args.batch_size >= 1

\* C7: with a valid input string and a batch size <= 0, run_analysis fails with
\* an input error raised by the preparation step, before a model or an engine
\* is constructed or invoked.
C7_NonPositiveBatchRejectedAtBoundary ==
  (~BadInputString /\ a_args.batch_size <= 0) =>
    /\ NothingBuilt
    /\ a_pc \in {"prepare", "failed"}
    /\ a_pc = "failed" => RejectedAtBoundary

ReportHas(k) == k \in DOMAIN a_report

\* C8: the returned report holds the baseline result iff the mode is baseline
\* or both, the optimized result iff it is optimized or both, and the
\* comparison block with its four entries iff it is both; the one-shot outputs
\* compared in mode both come from the input tensor that was profiled.
C8_ReportContents ==
  a_pc = "done" =>
    /\ ReportHas("baseline") <=> a_args.mode \in {"baseline", "both"}
    /\ ReportHas("optimized") <=> a_args.mode \in {"optimized", "both"}
    /\ ReportHas("comparison") <=> a_args.mode = "both"
    /\ \A n \in {"baseline", "optimized"} :
         ReportHas(n) => a_report[n] = AsDict(a_results[n])
    /\ a_args.mode = "both" =>
         /\ DOMAIN a_report["comparison"] =
              {"speedup_x", "memory_savings_percent", "correctness", "max_diff"}
         /\ \A n \in {"baseline", "optimized"} :
              /\ a_oneshot[n] = a_input.data
              /\ a_profiled[n] = a_input.data
    /\ a_args.mode # "both" => a_oneshot = <<>>

\* a report of mode both has been returned for a batch of two rows
C8_Witness ==
  /\ a_pc = "done"
  /\ a_args.mode = "both"
  /\ ReportHas("comparison")
  /\ ReportHas("baseline")
  /\ ReportHas("optimized")
  /\ a_args.batch_size = 2

\* q is the quotient n / d
IsQuotient(q, n, d) == q # ZeroDivisionError /\ q[2] > 0 /\ q[1] * d = q[2] * n

\* C9: speedup is baseline latency / optimized latency when the latter is > 0
\* and 0 when it is 0; memory_saved_pct is (baseline peak - optimized peak) /
\* baseline peak * 100 when the baseline peak is > 0 and 0 when it is 0; no
\* division by zero happens; correctness holds iff max_diff < 1e-4.
C9_ComparisonBlock ==
  (a_pc = "done" /\ a_args.mode = "both") =>
    LET c == a_report["comparison"]
        base == a_results["baseline"]
        optr == a_results["optimized"]
    IN /\ optr.latency_sec > 0 =>
            IsQuotient(c.speedup_x, base.latency_sec, optr.latency_sec)
       /\ optr.latency_sec = 0 => c.speedup_x = Rat(0, 1)
       /\ base.peak_memory_kb > 0 =>
            IsQuotient(c.memory_savings_percent,
                       (base.peak_memory_kb - optr.peak_memory_kb) * 100,
                       base.peak_memory_kb)
       /\ base.peak_memory_kb = 0 => c.memory_savings_percent = Rat(0, 1)
       /\ c.speedup_x # ZeroDivisionError
       /\ c.memory_savings_percent # ZeroDivisionError
       /\ c.correctness <=> (c.max_diff * ToleranceInverse < 1)

\* a comparison of an optimized latency of 0 and a baseline peak above the
\* optimized peak
C9_Witness ==
  /\ a_pc = "done"
  /\ a_args.mode = "both"
  /\ a_results["optimized"].latency_sec = 0
  /\ a_results["baseline"].latency_sec > 0
  /\ a_results["baseline"].peak_memory_kb > a_results["optimized"].peak_memory_kb
  /\ a_results["optimized"].peak_memory_kb > 0
  /\ a_report["comparison"].speedup_x = Rat(0, 1)
  /\ a_report["comparison"].memory_savings_percent # Rat(0, 1)

(***************************************************************************)
(* Two callers run forward on one OptimizedExecutionEngine at a time; the  *)
(* five in-place steps of the two calls interleave.                        *)
(***************************************************************************)
LastStep == NumSteps
Returned == NumSteps + 1
ReadDone == NumSteps + 2

ConcInit ==
  /\ \E w \in WeightSets, maxb \in 1..MaxBatch : c_opt = NewOptimizedEngine(w, maxb)
  /\ c_pc = [t \in Callers |-> 0]
  /\ c_x = [t \in Callers |-> <<>>]
  /\ c_out = [t \in Callers |-> NoResult]
  /\ c_overlap = [t \in Callers |-> FALSE]
  /\ EngineIdle
  /\ TileIdle
  /\ AnalysisIdle
  /\ NaiveConcIdle
  /\ ModelIdle
  /\ ProfIdle

InCall(t) == c_pc[t] \in 1..Returned

\* caller t enters forward(x): the capacity check passes and the views are made
ConcStart(t, x) ==
  /\ c_pc[t] = 0
  /\ ~ExceedsCapacity(c_opt, x)
  /\ c_x' = [c_x EXCEPT ![t] = x]
  /\ c_pc' = [c_pc EXCEPT ![t] = 1]
  /\ UNCHANGED <<c_opt, c_out, c_overlap, engineVars, tileVars, analysisVars,
                 naiveConcVars, modelVars, profVars>>

\* caller t's forward runs its next in-place step on the shared buffers
ConcStep(t) ==
  /\ c_pc[t] \in 1..LastStep
  /\ c_opt' = ForwardStep(c_opt, c_x[t], c_pc[t])
  /\ c_pc' = [c_pc EXCEPT ![t] = @ + 1]
  /\ c_overlap' = [u \in Callers |-> c_overlap[u] \/ (u # t /\ InCall(u))]
  /\ UNCHANGED <<c_x, c_out, engineVars, tileVars, analysisVars, naiveConcVars,
                 modelVars, profVars>>

\* caller t reads the output through the view forward returned
ConcRead(t) ==
  /\ c_pc[t] = Returned
  /\ c_out' = [c_out EXCEPT ![t] = [kind |-> "array",
                                     data |-> ReadResult(c_opt, ForwardReturn(c_opt, c_x[t]))]]
  /\ c_pc' = [c_pc EXCEPT ![t] = ReadDone]
  /\ UNCHANGED <<c_opt, c_x, c_overlap, engineVars, tileVars, analysisVars,
                 naiveConcVars, modelVars, profVars>>

ConcStarts == \E t \in Callers : \E x \in Batches(Len(c_opt.hidden_buf)) : ConcStart(t, x)
ConcSteps == \E t \in Callers : ConcStep(t)
ConcReads == \E t \in Callers : ConcRead(t)

ConcNext == ConcStarts \/ ConcSteps \/ ConcReads

SpecConc == ConcInit /\ [][ConcNext]_vars

\* what forward(x) returns when it runs alone on a freshly constructed engine
AloneOutput(x) ==
  LET out == OptForward(NewOptimizedEngine(c_opt.w, Len(c_opt.hidden_buf)), x)
  IN ReadResult(out.engine, out.ret)

Corrupted(t) == c_pc[t] = ReadDone /\ c_out[t].data # AloneOutput(c_x[t])

\* C10: of two forward calls on one optimized engine, a call reads an output
\* other than the one it returns when run alone only if a step of the other
\* call ran during it; and such a corrupted output is reachable (the witness).
C10_CorruptionOnlyByInterleaving ==
  \A t \in Callers : Corrupted(t) => c_overlap[t]

\* two interleaved calls on different inputs, one of which has read a
\* corrupted output
C10_Witness ==
  /\ \A t \in Callers : c_pc[t] = ReadDone
  /\ c_x[1] # c_x[2]
  /\ \E t \in Callers : Corrupted(t) /\ c_overlap[t]

(***************************************************************************)
(* Two callers run forward on one NaiveExecutionEngine at a time; the      *)
(* statements of the two calls interleave.  Each call keeps hidden_pre,    *)
(* hidden and output in its own frame and reads the weights of the engine. *)
(***************************************************************************)
\* mutant of StoreLocal: the name is kept on the engine, one for all calls
StoreLocalShared(frames, t, name, value) ==
  [u \in DOMAIN frames |-> [frames[u] EXCEPT ![name] = value]]

\* an assignment to a local name of call t
StoreLocal(frames, t, name, value) == [frames EXCEPT ![t][name] = value]

\* the three assignments of forward
NaiveStatements == 3
NaiveAtReturn == NaiveStatements + 1
NaiveReturned == NaiveStatements + 2

\* the name statement n of forward assigns
NaiveTarget(n) ==
  CASE n = 1 -> "hidden_pre"
    [] n = 2 -> "hidden"
    [] n = 3 -> "output"

\* the value statement n of forward computes from the weights w, the input x
\* and the locals of the call
NaiveValue(w, x, frame, n) ==
  CASE n = 1 -> AddBias(MatMul(x, w.W1, Len(w.b1)), w.b1)
    [] n = 2 -> Relu(frame.hidden_pre)
    [] n = 3 -> AddBias(MatMul(frame.hidden, w.W2, Len(w.b2)), w.b2)

NaiveConcInit ==
  /\ \E w \in WeightSets : n_engine = [w |-> w]
  /\ n_pc = [t \in Callers |-> 0]
  /\ n_x = [t \in Callers |-> <<>>]
  /\ n_frame = [t \in Callers |-> NoFrame]
  /\ n_ret = [t \in Callers |-> NoResult]
  /\ n_overlap = [t \in Callers |-> FALSE]
  /\ EngineIdle
  /\ TileIdle
  /\ AnalysisIdle
  /\ ConcIdle
  /\ ModelIdle
  /\ ProfIdle

NaiveInCall(t) == n_pc[t] \in 1..NaiveAtReturn

\* caller t enters forward(x) with a new frame
NaiveStart(t, x) ==
  /\ n_pc[t] = 0
  /\ n_x' = [n_x EXCEPT ![t] = x]
  /\ n_pc' = [n_pc EXCEPT ![t] = 1]
  /\ UNCHANGED <<n_engine, n_frame, n_ret, n_overlap, engineVars, tileVars,
                 analysisVars, concVars, modelVars, profVars>>

\* caller t's forward runs its next statement
NaiveStep(t) ==
  /\ n_pc[t] \in 1..NaiveStatements
  /\ n_frame' = StoreLocal(n_frame, t, NaiveTarget(n_pc[t]),
                           NaiveValue(n_engine.w, n_x[t], n_frame[t], n_pc[t]))
  /\ n_pc' = [n_pc EXCEPT ![t] = @ + 1]
  /\ n_overlap' = [u \in Callers |-> n_overlap[u] \/ (u # t /\ NaiveInCall(u))]
  /\ UNCHANGED <<n_engine, n_x, n_ret, engineVars, tileVars, analysisVars, concVars,
                 modelVars, profVars>>

\* caller t's forward returns output
NaiveReturn(t) ==
  /\ n_pc[t] = NaiveAtReturn
  /\ n_ret' = [n_ret EXCEPT ![t] = [kind |-> "array", data |-> n_frame[t].output]]
  /\ n_pc' = [n_pc EXCEPT ![t] = NaiveReturned]
  /\ n_overlap' = [u \in Callers |-> n_overlap[u] \/ (u # t /\ NaiveInCall(u))]
  /\ UNCHANGED <<n_engine, n_x, n_frame, engineVars, tileVars, analysisVars, concVars,
                 modelVars, profVars>>

NaiveStarts == \E t \in Callers : \E x \in Batches(MaxBatch) : NaiveStart(t, x)
NaiveSteps == \E t \in Callers : NaiveStep(t)
NaiveReturns == \E t \in Callers : NaiveReturn(t)

NaiveConcNext == NaiveStarts \/ NaiveSteps \/ NaiveReturns

SpecNaiveConc == NaiveConcInit /\ [][NaiveConcNext]_vars

\* C11: under every interleaving of the statements of two concurrent forward
\* calls on one naive engine, each call returns the result it returns when run
\* alone on its input, and the shared weights stay as they were.
C11_NaiveReentrant ==
  /\ \A t \in Callers :
       n_pc[t] = NaiveReturned =>
         n_ret[t] = [kind |-> "array", data |-> NaiveForward(n_engine.w, n_x[t])]
  /\ n_engine.w \in WeightSets

\* two calls on different non-empty inputs have returned different results,
\* each after steps of the other ran during it
C11_Witness ==
  /\ \A t \in Callers : n_pc[t] = NaiveReturned /\ n_overlap[t] /\ Len(n_x[t]) >= 1
  /\ n_x[1] # n_x[2]
  /\ n_ret[1] # n_ret[2]

(***************************************************************************)
(* MLPModel(input_dim, hidden_dim, output_dim) for every triple of         *)
(* dimensions within the bounds, zero and negative ones included, and      *)
(* get_weights on the model constructed.                                   *)
(***************************************************************************)
ModelInit ==
  /\ m_args \in [input_dim : -1..MaxModelDim,
                  hidden_dim : -1..MaxModelDim,
                  output_dim : -1..MaxModelDim]
  /\ m_model = NoResult
  /\ m_weights = NoResult
  /\ EngineIdle
  /\ TileIdle
  /\ AnalysisIdle
  /\ ConcIdle
  /\ NaiveConcIdle
  /\ ProfIdle

\* model = MLPModel(input_dim, hidden_dim, output_dim)
ModelConstruct ==
  /\ m_model = NoResult
  /\ m_model' = MLPModel(m_args.input_dim, m_args.hidden_dim, m_args.output_dim)
  /\ UNCHANGED <<m_args, m_weights, engineVars, tileVars, analysisVars, concVars,
                 naiveConcVars, profVars>>

\* weights = model.get_weights()
ModelGetWeights ==
  /\ m_model.kind = "model"
  /\ m_weights = NoResult
  /\ m_weights' = GetWeights(m_model)
  /\ UNCHANGED <<m_args, m_model, engineVars, tileVars, analysisVars, concVars,
                 naiveConcVars, profVars>>

ModelNext == ModelConstruct \/ ModelGetWeights

SpecModel == ModelInit /\ [][ModelNext]_vars

NonPositiveDimension ==
  m_args.input_dim <= 0 \/ m_args.hidden_dim <= 0 \/ m_args.output_dim <= 0

\* the weight set has a matrix or a vector without entries
EmptyWeightSet(w) ==
  \/ Len(w.W1) = 0
  \/ Len(w.b1) = 0
  \/ Len(w.W2) = 0
  \/ Len(w.b2) = 0

\* C12: constructing MLPModel with a dimension that is zero or negative fails
\* with an error at construction, and no weight set with an empty dimension is
\* ever produced.
C12_NonPositiveDimensionFailsFast ==
  /\ (m_model # NoResult /\ NonPositiveDimension) => m_model.kind = "ValueError"
  /\ m_weights # NoResult => ~EmptyWeightSet(m_weights)

(***************************************************************************)
(* ExecutionProfiler.profile(func, x), statement by statement.  The        *)
(* callable is the forward of an engine or a callable that counts its      *)
(* calls: it returns a new value at every call and raises at one of them.  *)
(***************************************************************************)
\* the number of calls a profile run makes at most
MaxCalls == MaxWarmups + 2 * MaxIterations

CallableError == [kind |-> "RuntimeError"]

\* the callables profiled and the state each starts in
ProfCallables ==
  {[func |-> [kind |-> "forward", name |-> "baseline"], state |-> [w |-> w]] :
     w \in WeightSets}
  \cup {[func |-> [kind |-> "forward", name |-> "optimized"],
         state |-> NewOptimizedEngine(w, MaxBatch)] : w \in WeightSets}
  \cup {[func |-> [kind |-> "counter", raises_at |-> n], state |-> 0] :
          n \in 1..(MaxCalls + 1)}

\* func(*args) on the state st of the callable: its state after the call and
\* what it returned or raised
CallFunc(f, st, x) ==
  IF f.kind = "forward"
  THEN LET out == Forward(f.name, st, x) IN [state |-> out.engine, ret |-> out.ret]
  ELSE [state |-> st + 1,
        ret |-> IF st + 1 = f.raises_at
                THEN CallableError
                ELSE [kind |-> "array", data |-> <<<<st + 1>>>>]]

\* range(self.warmups), range(self.iterations) of the three loops
WarmupCalls(p) == p.warmups
TimedCalls(p) == p.iterations
\* mutant of TracedCalls: the third loop runs as often as the warmup loop
TracedCallsAsWarmups(p) == p.warmups
TracedCalls(p) == p.iterations

ProfInit ==
  /\ p_profiler \in [warmups : 0..MaxWarmups, iterations : 0..MaxIterations]
  /\ \E c \in ProfCallables :
       /\ p_func = c.func
       /\ p_state = c.state
  /\ p_args \in Batches(MaxBatch)
  /\ p_func.kind = "counter" => p_args = <<>>
  /\ p_pc = "warmup"
  /\ p_i = 0
  /\ p_tracing = FALSE
  /\ p_timing = FALSE
  /\ p_last_output = NoResult
  /\ p_latency = NoResult
  /\ p_peak = 0
  /\ p_error = NoResult
  /\ p_result = NoResult
  /\ p_log = <<>>
  /\ EngineIdle
  /\ TileIdle
  /\ AnalysisIdle
  /\ ConcIdle
  /\ NaiveConcIdle
  /\ ModelIdle

\* the record of a call: the loop that made it, whether tracing and timing
\* were on, and the contents of what it returned as they read at its return
LogEntry(out) ==
  [phase |-> p_pc, traced |-> p_tracing, timed |-> p_timing,
   out |-> IF IsResult(out.ret)
           THEN [kind |-> "array", data |-> ReadResult(out.state, out.ret)]
           ELSE out.ret]

\* 1. Warmup: func(*args), the result dropped
ProfWarmupCall ==
  /\ p_pc = "warmup"
  /\ p_i < WarmupCalls(p_profiler)
  /\ LET out == CallFunc(p_func, p_state, p_args) IN
       /\ p_state' = out.state
       /\ p_log' = Append(p_log, LogEntry(out))
       /\ IF IsResult(out.ret)
          THEN /\ p_i' = p_i + 1
               /\ UNCHANGED <<p_pc, p_error>>
          ELSE /\ p_pc' = "failed"
               /\ p_error' = out.ret
               /\ UNCHANGED p_i
  /\ UNCHANGED <<p_profiler, p_func, p_args, p_tracing, p_timing, p_last_output,
                 p_latency, p_peak, p_result, engineVars, tileVars, analysisVars,
                 concVars, naiveConcVars, modelVars>>

\* start_time = time.perf_counter()
ProfStartTimer ==
  /\ p_pc = "warmup"
  /\ p_i = WarmupCalls(p_profiler)
  /\ p_timing' = TRUE
  /\ p_pc' = "timed"
  /\ p_i' = 0
  /\ UNCHANGED <<p_profiler, p_func, p_args, p_state, p_tracing, p_last_output,
                 p_latency, p_peak, p_error, p_result, p_log, engineVars, tileVars,
                 analysisVars, concVars, naiveConcVars, modelVars>>

\* 2. Measure Latency: last_output = func(*args); an exception leaves profile
\* and its clock reading behind
ProfTimedCall ==
  /\ p_pc = "timed"
  /\ p_i < TimedCalls(p_profiler)
  /\ LET out == CallFunc(p_func, p_state, p_args) IN
       /\ p_state' = out.state
       /\ p_log' = Append(p_log, LogEntry(out))
       /\ IF IsResult(out.ret)
          THEN /\ p_i' = p_i + 1
               /\ p_last_output' = out.ret
               /\ UNCHANGED <<p_pc, p_error, p_timing>>
          ELSE /\ p_pc' = "failed"
               /\ p_error' = out.ret
               /\ p_timing' = FALSE
               /\ UNCHANGED <<p_i, p_last_output>>
  /\ UNCHANGED <<p_profiler, p_func, p_args, p_tracing, p_latency, p_peak,
                 p_result, engineVars, tileVars, analysisVars, concVars,
                 naiveConcVars, modelVars>>

\* end_time = time.perf_counter(); avg_latency = (end_time - start_time) /
\* self.iterations, the clock having advanced by some number of ticks
ProfStopTimer ==
  /\ p_pc = "timed"
  /\ p_i = TimedCalls(p_profiler)
  /\ p_timing' = FALSE
  /\ \E ticks \in 0..MaxTicks :
       LET avg_latency == Divide(ticks, p_profiler.iterations) IN
       IF avg_latency = ZeroDivisionError
       THEN /\ p_pc' = "failed"
            /\ p_error' = [kind |-> "ZeroDivisionError"]
            /\ UNCHANGED p_latency
       ELSE /\ p_pc' = "trace_start"
            /\ p_latency' = avg_latency
            /\ UNCHANGED p_error
  /\ UNCHANGED <<p_profiler, p_func, p_args, p_state, p_i, p_tracing,
                 p_last_output, p_peak, p_result, p_log, engineVars, tileVars,
                 analysisVars, concVars, naiveConcVars, modelVars>>

\* gc.collect(); tracemalloc.start()
ProfTraceStart ==
  /\ p_pc = "trace_start"
  /\ p_tracing' = TRUE
  /\ p_pc' = "traced"
  /\ p_i' = 0
  /\ UNCHANGED <<p_profiler, p_func, p_args, p_state, p_timing, p_last_output,
                 p_latency, p_peak, p_error, p_result, p_log, engineVars, tileVars,
                 analysisVars, concVars, naiveConcVars, modelVars>>

\* 3. Measure Memory: func(*args) inside try, the result dropped; an exception
\* goes through the finally clause
ProfTracedCall ==
  /\ p_pc = "traced"
  /\ p_i < TracedCalls(p_profiler)
  /\ LET out == CallFunc(p_func, p_state, p_args) IN
       /\ p_state' = out.state
       /\ p_log' = Append(p_log, LogEntry(out))
       /\ IF IsResult(out.ret)
          THEN /\ p_i' = p_i + 1
               /\ UNCHANGED <<p_pc, p_error>>
          ELSE /\ p_pc' = "finally"
               /\ p_error' = out.ret
               /\ UNCHANGED p_i
  /\ UNCHANGED <<p_profiler, p_func, p_args, p_tracing, p_timing, p_last_output,
                 p_latency, p_peak, p_result, engineVars, tileVars, analysisVars,
                 concVars, naiveConcVars, modelVars>>

\* _, peak = tracemalloc.get_traced_memory()
ProfGetPeak ==
  /\ p_pc = "traced"
  /\ p_i = TracedCalls(p_profiler)
  /\ \E peak \in 0..MaxTicks : p_peak' = peak
  /\ p_pc' = "finally"
  /\ UNCHANGED <<p_profiler, p_func, p_args, p_state, p_i, p_tracing, p_timing,
                 p_last_output, p_latency, p_error, p_result, p_log, engineVars,
                 tileVars, analysisVars, concVars, naiveConcVars, modelVars>>

\* finally: tracemalloc.stop(), then on with profile or out with the exception
ProfTraceStop ==
  /\ p_pc = "finally"
  /\ p_tracing' = FALSE
  /\ p_pc' = IF p_error = NoResult THEN "summarize" ELSE "failed"
  /\ UNCHANGED <<p_profiler, p_func, p_args, p_state, p_i, p_timing,
                 p_last_output, p_latency, p_peak, p_error, p_result, p_log,
                 engineVars, tileVars, analysisVars, concVars, naiveConcVars,
                 modelVars>>

\* 4. Summarize Output: min, max and mean of last_output as it reads now, and
\* the ProfileResult returned
ProfSummarize ==
  /\ p_pc = "summarize"
  /\ LET output_stats == Summarize(ReadResult(p_state, p_last_output)) IN
       IF output_stats.kind = "ValueError"
       THEN /\ p_pc' = "failed"
            /\ p_error' = output_stats
            /\ UNCHANGED p_result
       ELSE /\ p_pc' = "done"
            /\ p_result' = [kind |-> "ProfileResult",
                            latency_sec |-> p_latency,
                            peak_memory_kb |-> p_peak,
                            output_summary |-> output_stats]
            /\ UNCHANGED p_error
  /\ UNCHANGED <<p_profiler, p_func, p_args, p_state, p_i, p_tracing, p_timing,
                 p_last_output, p_latency, p_peak, p_log, engineVars, tileVars,
                 analysisVars, concVars, naiveConcVars, modelVars>>

ProfNext ==
  \/ ProfWarmupCall
  \/ ProfStartTimer
  \/ ProfTimedCall
  \/ ProfStopTimer
  \/ ProfTraceStart
  \/ ProfTracedCall
  \/ ProfGetPeak
  \/ ProfTraceStop
  \/ ProfSummarize

SpecProfiler == ProfInit /\ [][ProfNext]_vars

\* C13: the calls of a profile run come in three consecutive phases: warmups
\* discarded calls, then iterations timed calls, then iterations calls under
\* allocation tracing; a run that returns has made warmups + 2 * iterations
\* calls; tracing is on during exactly the calls of the third phase and off
\* when profile returns or raises; the clock interval holds exactly the calls
\* of the second phase.
C13_ThreePhases ==
  LET w == p_profiler.warmups
      n == p_profiler.iterations
  IN /\ \A k \in 1..Len(p_log) :
          /\ k <= w + 2 * n
          /\ k <= w => p_log[k].phase = "warmup"
          /\ (w < k /\ k <= w + n) => p_log[k].phase = "timed"
          /\ w + n < k => p_log[k].phase = "traced"
          /\ p_log[k].traced <=> p_log[k].phase = "traced"
          /\ p_log[k].timed <=> p_log[k].phase = "timed"
     /\ p_pc = "done" => Len(p_log) = w + 2 * n
     /\ p_pc \in {"done", "failed"} => ~p_tracing /\ ~p_timing
     /\ p_tracing => p_pc \in {"traced", "finally"}

\* a run of 1 warmup and 2 iterations has returned after 5 calls, the last 2 of
\* them traced, and tracing is off again
C13_Witness ==
  /\ p_pc = "done"
  /\ p_profiler.warmups = 1
  /\ p_profiler.iterations = 2
  /\ Len(p_log) = 5
  /\ ~p_log[1].traced /\ ~p_log[1].timed
  /\ p_log[3].timed /\ ~p_log[3].traced
  /\ p_log[4].traced /\ p_log[5].traced
  /\ ~p_tracing

\* what the most recent call of the run returned
MostRecentOutput == p_log[Len(p_log)].out

\* C14: the output summary of the ProfileResult is the min, max and mean of
\* the output of the most recent call the profiler made to the callable before
\* summarizing, for every callable, one whose value differs from call to call
\* included.
C14_SummaryOfMostRecentCall ==
  p_pc = "done" => p_result.output_summary = Summarize(MostRecentOutput.data)

(***************************************************************************)
(* The frame of forward, over the sequential calls of SpecEngine.          *)
(***************************************************************************)
\* the shape of a buffer: its row count and the length of each row
Shape(buf) == <<Len(buf), [r \in 1..Len(buf) |-> Len(buf[r])]>>

\* rows b+1 .. max_batch_size (rows b .. max_batch_size-1 counted from 0) of
\* both buffers are the same in the engines e and f
SameRowsFrom(e, f, b) ==
  \A r \in (b + 1)..Len(e.hidden_buf) :
    /\ f.hidden_buf[r] = e.hidden_buf[r]
    /\ f.output_buf[r] = e.output_buf[r]

====
